---- MODULE Spec2Model ----
(***************************************************************************)
(* Model of src/src/utils/const.ts: the token-URI decoder                  *)
(* (decodeTokenData), the collection-state fetcher (useFetchTokens) and    *)
(* the token-gate checker (useCheckTokenGate).                             *)
(*                                                                         *)
(* JavaScript strings are sequences of UTF-16 code units and Buffers are   *)
(* sequences of bytes; both are modelled as sequences of naturals.         *)
(***************************************************************************)
EXTENDS Integers, Sequences, FiniteSets, TLC

(***************************************************************************)
(* Part 1.  Strings, base64, UTF-8 and JSON as decodeTokenData uses them.  *)
(***************************************************************************)

\* A prefix length one too long, as a slip in the hardcoded number would be.
OuterPrefixLenOneMore == 29 + 1
\* tokenURI.substring(29): the number of code units skipped (const.ts:65).
OuterPrefixLen == 29
\* json.image.substring(26): the number of code units skipped (const.ts:68).
ImagePrefixLen == 26

\* String.prototype.substring(n): the code units from index n (0-based) on;
\* the empty string when the receiver is not longer than n.
Substring(s, n) == SubSeq(s, n + 1, Len(s))

\* The sextet a base64 character stands for, or -1 when the character is
\* outside the alphabet.  Buffer.from(s, "base64") accepts the standard
\* alphabet and the URL-safe characters '-' and '_'.
B64Index(c) ==
  IF c >= 65 /\ c <= 90 THEN c - 65
  ELSE IF c >= 97 /\ c <= 122 THEN c - 71
  ELSE IF c >= 48 /\ c <= 57 THEN c + 4
  ELSE IF c = 43 \/ c = 45 THEN 62
  ELSE IF c = 47 \/ c = 95 THEN 63
  ELSE -1

\* The index of the first '=' (61) of s, or Len(s) + 1 when it has none.
FirstPad(s) ==
  LET pads == {i \in 1 .. Len(s) : s[i] = 61}
  IN  IF pads = {} THEN Len(s) + 1
      ELSE CHOOSE i \in pads : \A j \in pads : i <= j

InAlphabet(c) == B64Index(c) >= 0

\* The sextets of the characters Buffer.from(s, "base64") reads: decoding
\* stops at the first '=' and characters outside the alphabet are skipped;
\* nothing is rejected.
B64Sextets(s) ==
  LET read == SelectSeq(SubSeq(s, 1, FirstPad(s) - 1), InAlphabet)
  IN  [i \in 1 .. Len(read) |-> B64Index(read[i])]

\* Byte k of the bit string the sextets q spell, six bits each.
ByteAt(q, k) ==
  LET bit == (k - 1) * 8
      j   == (bit \div 6) + 1
      r   == bit % 6
  IN  IF r = 0 THEN q[j] * 4 + (q[j + 1] \div 16)
      ELSE IF r = 2 THEN (q[j] % 16) * 16 + (q[j + 1] \div 4)
      ELSE (q[j] % 4) * 64 + q[j + 1]

\* Sextets to bytes: four sextets give three bytes, a trailing group of
\* three gives two bytes, of two gives one byte, and a single trailing
\* sextet gives none.
SextetsToBytes(q) == [k \in 1 .. ((Len(q) * 6) \div 8) |-> ByteAt(q, k)]

\* Buffer.from(data, "base64") (const.ts:66 and :69): lenient, never throws.
BufferFromBase64(s) == SextetsToBytes(B64Sextets(s))

\* U+FFFD, what Buffer.prototype.toString() puts for bytes that are not UTF-8.
ReplacementChar == 65533

IsLeadOfTwo(x) == x >= 194 /\ x <= 223
IsContinuation(x) == x >= 128 /\ x <= 191

\* Buffer.prototype.toString() (UTF-8 decoding, const.ts:67 and :69) for
\* one- and two-byte sequences; every other byte becomes U+FFFD.  A byte is
\* the second of a two-byte sequence when it is a continuation byte that
\* follows a lead byte (a lead byte is never itself a continuation byte).
\* Exact for buffers with no lead byte of a three- or four-byte sequence
\* (224..244) followed by a continuation byte; this model's buffers have none.
BufferToString(b) ==
  LET Second(i) == i > 1 /\ IsLeadOfTwo(b[i - 1]) /\ IsContinuation(b[i])
      First(i)  == ~Second(i)
      starts    == SelectSeq([i \in 1 .. Len(b) |-> i], First)
      Unit(i)   == IF b[i] < 128 THEN b[i]
                   ELSE IF IsLeadOfTwo(b[i]) /\ i < Len(b) /\ IsContinuation(b[i + 1])
                     THEN (b[i] - 192) * 64 + (b[i + 1] - 128)
                   ELSE ReplacementChar
  IN  [n \in 1 .. Len(starts) |-> Unit(starts[n])]

\* JavaScript values as far as decodeTokenData meets them.
Undefined == [t |-> "undefined"]
Str(s) == [t |-> "string", s |-> s]

\* obj[key] = value on an object held as its ordered list of members: an
\* existing key keeps its place and takes the new value.
RECURSIVE ObjSet(_, _, _)
ObjSet(obj, key, value) ==
  IF obj = <<>> THEN << <<key, value>> >>
  ELSE IF Head(obj)[1] = key THEN << <<key, value>> >> \o Tail(obj)
  ELSE <<Head(obj)>> \o ObjSet(Tail(obj), key, value)

\* obj.key : the member's value, undefined when there is no such member.
RECURSIVE ObjGet(_, _)
ObjGet(obj, key) ==
  IF obj = <<>> THEN Undefined
  ELSE IF Head(obj)[1] = key THEN Str(Head(obj)[2])
  ELSE ObjGet(Tail(obj), key)

ParseError == [ok |-> FALSE]

\* A JSON string whose opening quote is at s[i - 1]: the characters from
\* s[i] to the closing quote, with the escapes \" \\ \/ undone.  A control
\* character, a missing closing quote or another escape is a syntax error.
RECURSIVE ScanString(_, _, _)
ScanString(s, i, acc) ==
  IF i > Len(s) THEN ParseError
  ELSE IF s[i] = 34 THEN [ok |-> TRUE, val |-> acc, next |-> i + 1]
  ELSE IF s[i] < 32 THEN ParseError
  ELSE IF s[i] = 92 THEN
    IF i + 1 <= Len(s) /\ s[i + 1] \in {34, 92, 47}
    THEN ScanString(s, i + 2, Append(acc, s[i + 1]))
    ELSE ParseError
  ELSE ScanString(s, i + 1, Append(acc, s[i]))

ParseString(s, i) ==
  IF i <= Len(s) /\ s[i] = 34 THEN ScanString(s, i + 1, <<>>) ELSE ParseError

\* The members "key":"value" of an object from s[i] on, up to the closing
\* brace, which must end the text.
RECURSIVE ParseMembers(_, _, _)
ParseMembers(s, i, obj) ==
  LET k == ParseString(s, i) IN
  IF ~k.ok \/ k.next > Len(s) \/ s[k.next] # 58 THEN ParseError
  ELSE
    LET v == ParseString(s, k.next + 1) IN
    IF ~v.ok \/ v.next > Len(s) THEN ParseError
    ELSE IF s[v.next] = 125 THEN
      IF v.next = Len(s)
      THEN [ok |-> TRUE, val |-> ObjSet(obj, k.val, v.val)]
      ELSE ParseError
    ELSE IF s[v.next] = 44 THEN
      ParseMembers(s, v.next + 1, ObjSet(obj, k.val, v.val))
    ELSE ParseError

\* JSON.parse (const.ts:67) on the texts of this model: an object whose
\* members are strings, written without white space, or a text that is not
\* JSON at all.  The result is the object's ordered member list.
JSONParse(s) ==
  IF Len(s) < 2 \/ s[1] # 123 THEN ParseError
  ELSE IF s[2] = 125 THEN
    IF Len(s) = 2 THEN [ok |-> TRUE, val |-> <<>>] ELSE ParseError
  ELSE ParseMembers(s, 2, <<>>)

ImageKey == <<105, 109, 97, 103, 101>>

Thrown(e) == [t |-> "throw", error |-> e]

\* decodeTokenData (const.ts:64-72): the outer prefix is skipped by length,
\* the rest base64-decoded and parsed; the image's prefix is skipped by
\* length and the rest base64-decoded to a string.  JSON.parse throws a
\* SyntaxError; json.image.substring throws a TypeError when the object has
\* no image member.
decodeTokenData(tokenURI) ==
  LET data    == Substring(tokenURI, OuterPrefixLen)
      decoded == BufferFromBase64(data)
      parsed  == JSONParse(BufferToString(decoded))
  IN  IF ~parsed.ok THEN Thrown("SyntaxError")
      ELSE
        LET json  == parsed.val
            image == ObjGet(json, ImageKey)
        IN  IF image = Undefined THEN Thrown("TypeError")
            ELSE
              LET svgData == Substring(image.s, ImagePrefixLen)
                  svg     == BufferToString(BufferFromBase64(svgData))
              IN  [t |-> "ok", json |-> json, svg |-> svg]

(***************************************************************************)
(* The token URI scheme the decoder is written for:                        *)
(*   <prefix> base64(JSON{ ..., image: <prefix> base64(image) })           *)
(***************************************************************************)

\* "data:application/json;base64,"
OuterPrefix ==
  <<100, 97, 116, 97, 58, 97, 112, 112, 108, 105, 99, 97, 116, 105, 111,
    110, 47, 106, 115, 111, 110, 59, 98, 97, 115, 101, 54, 52, 44>>

\* "data:image/svg+xml;base64,"
ImagePrefix ==
  <<100, 97, 116, 97, 58, 105, 109, 97, 103, 101, 47, 115, 118, 103, 43,
    120, 109, 108, 59, 98, 97, 115, 101, 54, 52, 44>>

\* The base64 character of a sextet.
B64Char(i) ==
  IF i < 26 THEN 65 + i
  ELSE IF i < 52 THEN 71 + i
  ELSE IF i < 62 THEN i - 4
  ELSE IF i = 62 THEN 43
  ELSE 47

\* Sextet j of the bit string the bytes b spell, zero bits added at the end.
SextetAt(b, j) ==
  LET bit  == (j - 1) * 6
      k    == (bit \div 8) + 1
      r    == bit % 8
      next == IF k < Len(b) THEN b[k + 1] ELSE 0
  IN  IF r = 0 THEN b[k] \div 4
      ELSE IF r = 6 THEN (b[k] % 4) * 16 + (next \div 16)
      ELSE IF r = 4 THEN (b[k] % 16) * 4 + (next \div 64)
      ELSE b[k] % 64

\* Standard base64 with padding: four characters for every three bytes.
Base64Encode(b) ==
  LET sextets == (Len(b) * 8 + 5) \div 6
      chars   == ((Len(b) + 2) \div 3) * 4
  IN  [j \in 1 .. chars |-> IF j <= sextets THEN B64Char(SextetAt(b, j)) ELSE 61]

\* The UTF-8 bytes of a string of code units that are no surrogates.
RECURSIVE Utf8Encode(_)
Utf8Encode(s) ==
  IF s = <<>> THEN <<>>
  ELSE IF s[1] < 128 THEN <<s[1]>> \o Utf8Encode(Tail(s))
  ELSE IF s[1] < 2048
    THEN <<192 + (s[1] \div 64), 128 + (s[1] % 64)>> \o Utf8Encode(Tail(s))
  ELSE <<224 + (s[1] \div 4096), 128 + ((s[1] \div 64) % 64), 128 + (s[1] % 64)>>
         \o Utf8Encode(Tail(s))

\* A JSON string literal: quotes and backslashes escaped.
RECURSIVE JSONQuoteChars(_)
JSONQuoteChars(s) ==
  IF s = <<>> THEN <<>>
  ELSE IF s[1] = 34 \/ s[1] = 92 THEN <<92, s[1]>> \o JSONQuoteChars(Tail(s))
  ELSE <<s[1]>> \o JSONQuoteChars(Tail(s))

JSONQuote(s) == <<34>> \o JSONQuoteChars(s) \o <<34>>

RECURSIVE JSONMembers(_)
JSONMembers(obj) ==
  IF obj = <<>> THEN <<>>
  ELSE JSONQuote(Head(obj)[1]) \o <<58>> \o JSONQuote(Head(obj)[2])
         \o (IF Len(obj) > 1 THEN <<44>> ELSE <<>>) \o JSONMembers(Tail(obj))

\* JSON.stringify of an object whose members are strings.
JSONStringify(obj) == <<123>> \o JSONMembers(obj) \o <<125>>

\* The data URI of an image given as bytes.
EncodeImage(bytes) == ImagePrefix \o Base64Encode(bytes)

\* The token URI of metadata M whose image is the given bytes.
EncodeTokenURI(M, bytes) ==
  OuterPrefix
    \o Base64Encode(Utf8Encode(JSONStringify(ObjSet(M, ImageKey, EncodeImage(bytes)))))

(***************************************************************************)
(* Part 2.  State.                                                         *)
(***************************************************************************)

VARIABLES
  \* the chain (the remote token contract)
  chainSupply,    \* what totalSupply() returns
  chainLimit,     \* what mintLimit() returns
  badToken,       \* the tokenId whose URI on the chain is malformed, or -1
  \* the arguments of useFetchTokens
  network,
  assetProvider,
  \* the refs of useFetchTokens (const.ts:173-176), one fetcher instance
  totalSupply,
  mintLimit,
  nextImage,
  tokens,
  \* the invocations of fetchTokens on that instance
  pc,             \* where each invocation is suspended
  tokenId,        \* the loop variable of each invocation (const.ts:198)
  genArgs,        \* the arguments of the invocation's generateSVGPart call
  calls,          \* the remote calls each invocation has issued, in order
  readSupply,     \* what the invocation's totalSupply() call returned, or -1
  readLimit,      \* what the invocation's mintLimit() call returned, or -1
  failure,        \* what the invocation's promise rejected with
  supplyAtCall,   \* the chain's supply when the pending totalSupply() call was issued
  started,        \* the number of invocations started so far
  \* the argument of useCheckTokenGate and the contracts it reads
  tokenGated,
  gateBalances,   \* what the gate contract's balanceOf(account) returns
  tokenBalances,  \* what the token contract's balanceOf(account) returns
  mintPrices,     \* what the token contract's mintPriceFor(account) returns
  \* the refs of useCheckTokenGate (const.ts:224-226), one checker instance
  totalBalance,
  balanceOf,
  mintPrice,
  \* the invocations of checkTokenGate on that instance
  gpc,            \* where each invocation is suspended
  account,        \* the account each invocation was called with
  gcalls,         \* the remote calls each invocation has issued, in order
  gstarted,       \* the number of invocations started so far
  \* the decoder on its own
  dpc, dM, dI, dURI, dOut, dOut2

chainVars   == <<chainSupply, chainLimit, badToken>>
configVars  == <<network, assetProvider>>
refVars     == <<totalSupply, mintLimit, nextImage, tokens>>
invVars     == <<pc, tokenId, genArgs, calls, readSupply, readLimit, failure,
                 supplyAtCall, started>>
fetchVars   == <<chainVars, configVars, refVars, invVars>>
decodeVars  == <<dpc, dM, dI, dURI, dOut, dOut2>>
gateChain   == <<tokenGated, gateBalances, tokenBalances, mintPrices>>
gateRefs    == <<totalBalance, balanceOf, mintPrice>>
gateInv     == <<gpc, account, gcalls, gstarted>>
gateVars    == <<gateChain, gateRefs, gateInv>>
vars        == <<fetchVars, gateVars, decodeVars>>

(***************************************************************************)
(* Part 3.  The collection-state fetcher, useFetchTokens.                  *)
(***************************************************************************)

\* The largest supply of the chain in the model.
MaxSupply == 5
\* A mint limit the supply of the model reaches and passes.
SmallLimit == 2
\* The mint limits of the chain in the model: one the supply reaches, one it
\* never reaches.
LimitChoices == {SmallLimit, MaxSupply + 1}
\* The number of fetchTokens invocations in one behaviour.
MaxFetches == 2

\* The invocations that may be in progress at once on the fetcher.
Invocations == {"a", "b"}

\* A window of five tokens instead of four.
RecentWindowOfFive == 4 + 1
\* The number of most recent tokens fetchTokens shows (const.ts:198).
RecentWindow == 4

Max(a, b) == IF a >= b THEN a ELSE b
Min(a, b) == IF a <= b THEN a ELSE b

Null == [t |-> "null"]

\* "@/utils/addresses": contract name -> network -> deployed address.
\* localNouns is not deployed on mumbai; ghostNouns is in no table.
addresses ==
  [svgHelper  |-> [localhost |-> "0xS1", mumbai |-> "0xS2"],
   dotNouns   |-> [localhost |-> "0xD1", mumbai |-> "0xD2"],
   localNouns |-> [localhost |-> "0xL1"]]

\* The (assetProvider, network) arguments the model tries; "" stands for an
\* assetProvider argument that is undefined.
Configs ==
  {<<"", "localhost">>, <<"localNouns", "localhost">>,
   <<"localNouns", "mumbai">>, <<"ghostNouns", "localhost">>}

\* The name without the default, as the lookup would be without || "dotNouns".
ProviderNameAsGiven(name) == name
\* assetProvider || "dotNouns" (const.ts:183).
ProviderName(name) == IF name = "" THEN "dotNouns" ELSE name

\* addresses[assetProvider || "dotNouns"][network] (const.ts:183): a
\* TypeError when the table has no such name, undefined when the name's
\* entry has no such network.
ProviderAddress(name, net) ==
  IF ProviderName(name) \notin DOMAIN addresses THEN Thrown("TypeError")
  ELSE IF net \notin DOMAIN addresses[ProviderName(name)] THEN Undefined
  ELSE Str(addresses[ProviderName(name)][net])

\* Number(supply), Number(limit) (const.ts:150, :157): the value itself for
\* the chain's values of this model, all far below 2^53.
ToNumber(n) == n

\* svgImageFromSvgPart(svgPart, tag, "") (const.ts:192) of what
\* generateSVGPart returned for (providerAddress, index): a string.
SvgImage(args) == [t |-> "string", s |-> <<"svg", args>>]

\* The image of token id: the one-character text of its digit.
TokenSvgBytes(id) == <<48 + id>>
TokenName(id) == <<110, 97, 109, 101>>

\* What debugTokenURI(id) returns: a URI of the scheme, except for the bad
\* token, whose payload is not JSON (even ids) or has no image (odd ids).
NotJSONText == <<123, 111, 111, 112, 115>>
TokenURIOnChain(id, bad) ==
  IF id # bad THEN EncodeTokenURI(<< <<TokenName(id), <<48 + id>>>> >>, TokenSvgBytes(id))
  ELSE IF id % 2 = 0 THEN OuterPrefix \o Base64Encode(NotJSONText)
  ELSE OuterPrefix \o Base64Encode(JSONStringify(<< <<TokenName(id), <<48 + id>>>> >>))

\* debugTokenURI and decodeTokenData over the chain's tokens, tabulated.
TokenURIs ==
  [id \in 0 .. MaxSupply - 1 |->
    [bad \in -1 .. MaxSupply - 1 |-> TokenURIOnChain(id, bad)]]
DecodedTokens ==
  [id \in 0 .. MaxSupply - 1 |->
    [bad \in -1 .. MaxSupply - 1 |-> decodeTokenData(TokenURIs[id][bad])]]

NoFailure == [kind |-> "none", method |-> "", tokenId |-> -1]
Failure(kind, method, id) == [kind |-> kind, method |-> method, tokenId |-> id]

Call(method, args) == [method |-> method, args |-> args]

Running(i) == pc[i] \notin {"idle", "done", "failed"}

\* A window that starts one token early, as an off-by-one in the loop would.
FirstTokenIdOneEarly(supply) == Max(0, supply - RecentWindow - 1)
\* The first tokenId of the loop (const.ts:198).
FirstTokenId(supply) == Max(0, supply - RecentWindow)

\* The loop's test (const.ts:199).
LoopContinues(id, supply) == id < supply

\* The test written with <= instead of <.
ShouldGenerateOrEqual(supply, limit) == supply <= limit
\* Whether the next token's image is generated (const.ts:186).
ShouldGenerate(supply, limit) == supply < limit

\* Rejection of invocation i's promise.
Reject(i, f) ==
  /\ pc' = [pc EXCEPT ![i] = "failed"]
  /\ failure' = [failure EXCEPT ![i] = f]

\* The loop entered without tokens.value = [], the tokens of earlier
\* fetches kept.
EnterLoopKeepsTokens(i, supply) ==
  /\ tokens' = tokens
  /\ tokenId' = [tokenId EXCEPT ![i] = FirstTokenId(supply)]
  /\ IF LoopContinues(FirstTokenId(supply), supply)
     THEN /\ pc' = [pc EXCEPT ![i] = "debugTokenURI"]
          /\ calls' = [calls EXCEPT
                         ![i] = Append(@, Call("debugTokenURI", FirstTokenId(supply)))]
     ELSE /\ pc' = [pc EXCEPT ![i] = "done"]
          /\ calls' = calls
  /\ failure' = failure

\* const.ts:196-202 up to the first suspension: tokens.value = [], and the
\* first debugTokenURI call when the window is not empty.
EnterLoop(i, supply) ==
  /\ tokens' = <<>>
  /\ tokenId' = [tokenId EXCEPT ![i] = FirstTokenId(supply)]
  /\ IF LoopContinues(FirstTokenId(supply), supply)
     THEN /\ pc' = [pc EXCEPT ![i] = "debugTokenURI"]
          /\ calls' = [calls EXCEPT
                         ![i] = Append(@, Call("debugTokenURI", FirstTokenId(supply)))]
     ELSE /\ pc' = [pc EXCEPT ![i] = "done"]
          /\ calls' = calls
  /\ failure' = failure

\* fetchTokens is called (const.ts:178-180): the SVG helper is bound to its
\* address on the network, which the table has for the networks of this
\* model, and the totalSupply() call is issued.
Start(i) ==
  /\ pc[i] \in {"idle", "done", "failed"}
  /\ started < MaxFetches
  /\ started' = started + 1
  /\ pc' = [pc EXCEPT ![i] = "totalSupply"]
  /\ calls' = [calls EXCEPT ![i] = <<Call("totalSupply", <<>>)>>]
  /\ readSupply' = [readSupply EXCEPT ![i] = -1]
  /\ readLimit' = [readLimit EXCEPT ![i] = -1]
  /\ failure' = [failure EXCEPT ![i] = NoFailure]
  /\ genArgs' = [genArgs EXCEPT ![i] = <<>>]
  /\ supplyAtCall' = [supplyAtCall EXCEPT ![i] = chainSupply]
  /\ UNCHANGED <<chainVars, configVars, refVars, tokenId, gateVars, decodeVars>>

\* The invocation that fetches run in when they do not overlap.
FirstInvocation == "a"

\* A fetch that starts only when no other invocation is in progress.
StartAlone ==
  /\ \A j \in Invocations : ~Running(j)
  /\ Start(FirstInvocation)

\* The invocation that the second of two fetches runs in when each is
\* followed on its own.
SecondInvocation == "b"

\* A fetch that starts only when no other is in progress, the first as
\* invocation "a" and the second as invocation "b", so that what the first
\* read and issued stays on record while the second runs.
StartInTurn(i) ==
  /\ \A j \in Invocations : ~Running(j)
  /\ pc[i] = "idle"
  /\ i = SecondInvocation => pc[FirstInvocation] # "idle"
  /\ Start(i)

\* totalSupply() returning with generateSVGPart called at once, before the
\* mintLimit() call has returned.
SupplyReturnsThenGenerates(i) ==
  /\ pc[i] = "totalSupply"
  /\ \E supply \in supplyAtCall[i] .. chainSupply :
       /\ totalSupply' = ToNumber(supply)
       /\ readSupply' = [readSupply EXCEPT ![i] = ToNumber(supply)]
       /\ calls' = [calls EXCEPT
                     ![i] = @ \o <<Call("mintLimit", <<>>),
                                   Call("generateSVGPart",
                                        <<ProviderAddress(assetProvider, network),
                                          ToNumber(supply)>>)>>]
  /\ supplyAtCall' = [supplyAtCall EXCEPT ![i] = -1]
  /\ pc' = [pc EXCEPT ![i] = "mintLimit"]
  /\ UNCHANGED <<chainVars, configVars, mintLimit, nextImage, tokens, tokenId,
                 genArgs, readLimit, failure, started, gateVars, decodeVars>>

\* totalSupply() returns (const.ts:180-181) a supply the chain had at some
\* time since the call was issued: the ref is assigned and the mintLimit()
\* call is issued.
SupplyReturns(i) ==
  /\ pc[i] = "totalSupply"
  /\ \E supply \in supplyAtCall[i] .. chainSupply :
       /\ totalSupply' = ToNumber(supply)
       /\ readSupply' = [readSupply EXCEPT ![i] = ToNumber(supply)]
  /\ supplyAtCall' = [supplyAtCall EXCEPT ![i] = -1]
  /\ pc' = [pc EXCEPT ![i] = "mintLimit"]
  /\ calls' = [calls EXCEPT ![i] = Append(@, Call("mintLimit", <<>>))]
  /\ UNCHANGED <<chainVars, configVars, mintLimit, nextImage, tokens, tokenId,
                 genArgs, readLimit, failure, started, gateVars, decodeVars>>

\* mintLimit() returns (const.ts:181-202): the ref is assigned, the provider
\* address looked up, and either generateSVGPart is called or nextImage is
\* cleared and the loop entered.
LimitReturns(i) ==
  /\ pc[i] = "mintLimit"
  /\ mintLimit' = ToNumber(chainLimit)
  /\ readLimit' = [readLimit EXCEPT ![i] = ToNumber(chainLimit)]
  /\ LET providerAddress == ProviderAddress(assetProvider, network) IN
     IF providerAddress.t = "throw"
     THEN /\ Reject(i, Failure(providerAddress.error, "addresses", -1))
          /\ UNCHANGED <<nextImage, tokens, tokenId, genArgs, calls>>
     ELSE IF ShouldGenerate(totalSupply, ToNumber(chainLimit))
     THEN /\ pc' = [pc EXCEPT ![i] = "generateSVGPart"]
          /\ genArgs' = [genArgs EXCEPT ![i] = <<providerAddress, totalSupply>>]
          /\ calls' = [calls EXCEPT
                        ![i] = Append(@, Call("generateSVGPart",
                                               <<providerAddress, totalSupply>>))]
          /\ UNCHANGED <<nextImage, tokens, tokenId, failure>>
     ELSE /\ nextImage' = Null
          /\ EnterLoop(i, totalSupply)
          /\ UNCHANGED genArgs
  /\ UNCHANGED <<chainVars, configVars, totalSupply, readSupply, supplyAtCall,
                 started, gateVars, decodeVars>>

\* generateSVGPart returns (const.ts:187-202).
GenerateReturns(i) ==
  /\ pc[i] = "generateSVGPart"
  /\ nextImage' = SvgImage(genArgs[i])
  /\ EnterLoop(i, totalSupply)
  /\ UNCHANGED <<chainVars, configVars, totalSupply, mintLimit, genArgs,
                 readSupply, readLimit, supplyAtCall, started, gateVars, decodeVars>>

\* debugTokenURI(tokenId) returning in a loop that skips a token whose URI
\* does not decode and goes on, as a best-effort scan would.
TokenURIReturnsBestEffort(i) ==
  /\ pc[i] = "debugTokenURI"
  /\ LET r == DecodedTokens[tokenId[i]][badToken] IN
     /\ tokens' = IF r.t = "throw" THEN tokens
                  ELSE Append(tokens, [tokenId |-> tokenId[i],
                                       image |-> ObjGet(r.json, ImageKey).s])
     /\ tokenId' = [tokenId EXCEPT ![i] = @ + 1]
     /\ failure' = failure
     /\ IF LoopContinues(tokenId[i] + 1, totalSupply)
        THEN /\ pc' = pc
             /\ calls' = [calls EXCEPT
                           ![i] = Append(@, Call("debugTokenURI", tokenId[i] + 1))]
        ELSE /\ pc' = [pc EXCEPT ![i] = "done"]
             /\ calls' = calls
  /\ UNCHANGED <<chainVars, configVars, totalSupply, mintLimit, nextImage,
                 genArgs, readSupply, readLimit, supplyAtCall, started, gateVars, decodeVars>>

\* debugTokenURI(tokenId) returns (const.ts:202-206): the URI is decoded, the
\* token pushed, and the next call issued while the loop goes on.
TokenURIReturns(i) ==
  /\ pc[i] = "debugTokenURI"
  /\ LET r == DecodedTokens[tokenId[i]][badToken] IN
     IF r.t = "throw"
     THEN /\ Reject(i, Failure(r.error, "decodeTokenData", tokenId[i]))
          /\ UNCHANGED <<tokens, tokenId, calls>>
     ELSE /\ tokens' = Append(tokens, [tokenId |-> tokenId[i],
                                        image |-> ObjGet(r.json, ImageKey).s])
          /\ tokenId' = [tokenId EXCEPT ![i] = @ + 1]
          /\ failure' = failure
          /\ IF LoopContinues(tokenId[i] + 1, totalSupply)
             THEN /\ pc' = pc
                  /\ calls' = [calls EXCEPT
                                ![i] = Append(@, Call("debugTokenURI", tokenId[i] + 1))]
             ELSE /\ pc' = [pc EXCEPT ![i] = "done"]
                  /\ calls' = calls
  /\ UNCHANGED <<chainVars, configVars, totalSupply, mintLimit, nextImage,
                 genArgs, readSupply, readLimit, supplyAtCall, started, gateVars, decodeVars>>

\* The rejected call issued once more instead of the rejection propagating,
\* as a retry around the await would do.
CallFailsRetried(i) ==
  /\ Running(i)
  /\ calls' = [calls EXCEPT ![i] = Append(@, @[Len(@)])]
  /\ UNCHANGED <<chainVars, configVars, refVars, pc, tokenId, genArgs, failure,
                 supplyAtCall, readSupply, readLimit, started, gateVars, decodeVars>>

\* The remote call invocation i waits for rejects (const.ts:180, :181, :187,
\* :202): nothing catches it, so the invocation's promise rejects.
CallFails(i) ==
  /\ Running(i)
  /\ Reject(i, Failure("ContractCallFailed", pc[i],
                       IF pc[i] = "debugTokenURI" THEN tokenId[i] ELSE -1))
  /\ supplyAtCall' = [supplyAtCall EXCEPT ![i] = -1]
  /\ UNCHANGED <<chainVars, configVars, refVars, tokenId, genArgs, calls,
                 readSupply, readLimit, started, gateVars, decodeVars>>

\* Somebody mints a token: the chain's supply grows up to its limit.
Mint ==
  /\ chainSupply < chainLimit
  /\ chainSupply < MaxSupply
  /\ chainSupply' = chainSupply + 1
  /\ UNCHANGED <<chainLimit, badToken, configVars, refVars, invVars, gateVars, decodeVars>>

(***************************************************************************)
(* Part 4.  The token-gate checker, useCheckTokenGate.                     *)
(***************************************************************************)

\* The largest balance or price a contract of the model returns.
MaxBalance == 1
\* The number of checkTokenGate invocations in one behaviour.
MaxChecks == 2

Accounts == {"A", "B"}

GRunning(i) == gpc[i] \notin {"idle", "done", "failed"}

\* result.toNumber() (const.ts:233): the value itself below 2^53.
BigNumberToNumber(n) == n

\* The gate contract queried whether gated or not.
GateQueriedAlways(gated) == TRUE
\* Whether the gate contract is queried (const.ts:230).
GateQueried(gated) == gated

\* getBalanceFromTokenContract is called (const.ts:235, :136).  The
\* contracts' answers are taken as the code destructures them: lists whose
\* first element is the value.
IssueTokenBalance(i, acct) ==
  /\ gpc' = [gpc EXCEPT ![i] = "balanceOf"]
  /\ gcalls' = [gcalls EXCEPT ![i] = Append(@, Call("token.balanceOf", acct))]

\* checkTokenGate(account) is called (const.ts:228-235): the gate contract's
\* balanceOf is called when tokenGated, the token contract's otherwise.
Check(i, acct) ==
  /\ gpc[i] \in {"idle", "done", "failed"}
  /\ gstarted < MaxChecks
  /\ gstarted' = gstarted + 1
  /\ account' = [account EXCEPT ![i] = acct]
  /\ IF GateQueried(tokenGated)
     THEN /\ gpc' = [gpc EXCEPT ![i] = "gate.balanceOf"]
          /\ gcalls' = [gcalls EXCEPT ![i] = <<Call("gate.balanceOf", acct)>>]
     ELSE /\ gpc' = [gpc EXCEPT ![i] = "balanceOf"]
          /\ gcalls' = [gcalls EXCEPT ![i] = <<Call("token.balanceOf", acct)>>]
  /\ UNCHANGED <<gateChain, gateRefs, fetchVars, decodeVars>>

\* A check that starts only when no other invocation is in progress.
CheckAlone(acct) ==
  /\ \A j \in Invocations : ~GRunning(j)
  /\ Check(FirstInvocation, acct)

\* tokenGate.balanceOf(account) returns (const.ts:232-235).
GateBalanceReturns(i) ==
  /\ gpc[i] = "gate.balanceOf"
  /\ totalBalance' = BigNumberToNumber(gateBalances[account[i]])
  /\ IssueTokenBalance(i, account[i])
  /\ UNCHANGED <<gateChain, balanceOf, mintPrice, account, gstarted,
                 fetchVars, decodeVars>>

\* tokenContract.balanceOf(account) returns (const.ts:235-236, :136-143).
TokenBalanceReturns(i) ==
  /\ gpc[i] = "balanceOf"
  /\ balanceOf' = tokenBalances[account[i]]
  /\ gpc' = [gpc EXCEPT ![i] = "mintPriceFor"]
  /\ gcalls' = [gcalls EXCEPT ![i] = Append(@, Call("token.mintPriceFor", account[i]))]
  /\ UNCHANGED <<gateChain, totalBalance, mintPrice, account, gstarted,
                 fetchVars, decodeVars>>

\* mintPriceFor's answer taken from the balance instead.
MintPriceReturnsBalance(i) ==
  /\ gpc[i] = "mintPriceFor"
  /\ mintPrice' = balanceOf
  /\ gpc' = [gpc EXCEPT ![i] = "done"]
  /\ UNCHANGED <<gateChain, totalBalance, balanceOf, account, gcalls, gstarted,
                 fetchVars, decodeVars>>

\* tokenContract.mintPriceFor(account) returns (const.ts:236-240, :143-144).
MintPriceReturns(i) ==
  /\ gpc[i] = "mintPriceFor"
  /\ mintPrice' = mintPrices[account[i]]
  /\ gpc' = [gpc EXCEPT ![i] = "done"]
  /\ UNCHANGED <<gateChain, totalBalance, balanceOf, account, gcalls, gstarted,
                 fetchVars, decodeVars>>

\* The remote call invocation i waits for rejects (const.ts:232, :136, :143).
GateCallFails(i) ==
  /\ GRunning(i)
  /\ gpc' = [gpc EXCEPT ![i] = "failed"]
  /\ UNCHANGED <<gateChain, gateRefs, account, gcalls, gstarted,
                 fetchVars, decodeVars>>

GateIdle ==
  /\ tokenGated = FALSE
  /\ gateBalances = [a \in Accounts |-> 0]
  /\ tokenBalances = [a \in Accounts |-> 0]
  /\ mintPrices = [a \in Accounts |-> 0]
  /\ totalBalance = 0
  /\ balanceOf = 0
  /\ mintPrice = 0
  /\ gpc = [i \in Invocations |-> "idle"]
  /\ account = [i \in Invocations |-> "A"]
  /\ gcalls = [i \in Invocations |-> <<>>]
  /\ gstarted = 0

GateInit ==
  /\ tokenGated \in BOOLEAN
  /\ gateBalances \in [Accounts -> 0 .. MaxBalance]
  /\ tokenBalances \in [Accounts -> 0 .. MaxBalance]
  /\ mintPrices \in [Accounts -> 0 .. MaxBalance]
  /\ totalBalance = 0
  /\ balanceOf = 0
  /\ mintPrice = 0
  /\ gpc = [i \in Invocations |-> "idle"]
  /\ account = [i \in Invocations |-> "A"]
  /\ gcalls = [i \in Invocations |-> <<>>]
  /\ gstarted = 0

FetchIdle ==
  /\ chainSupply = 0
  /\ chainLimit = SmallLimit
  /\ badToken = -1
  /\ assetProvider = ""
  /\ network = "localhost"
  /\ totalSupply = 0
  /\ mintLimit = 0
  /\ nextImage = Null
  /\ tokens = <<>>
  /\ pc = [i \in Invocations |-> "idle"]
  /\ tokenId = [i \in Invocations |-> 0]
  /\ genArgs = [i \in Invocations |-> <<>>]
  /\ calls = [i \in Invocations |-> <<>>]
  /\ readSupply = [i \in Invocations |-> -1]
  /\ readLimit = [i \in Invocations |-> -1]
  /\ failure = [i \in Invocations |-> NoFailure]
  /\ supplyAtCall = [i \in Invocations |-> -1]
  /\ started = 0

\* Checks one after another on one checker.
GateNext ==
  \/ \E acct \in Accounts : CheckAlone(acct)
  \/ \E i \in Invocations : GateBalanceReturns(i)
  \/ \E i \in Invocations : TokenBalanceReturns(i)
  \/ \E i \in Invocations : MintPriceReturns(i)
  \/ \E i \in Invocations : GateCallFails(i)

\* Checks that may overlap on one checker.
GateConcNext ==
  \/ \E i \in Invocations, acct \in Accounts : Check(i, acct)
  \/ \E i \in Invocations : GateBalanceReturns(i)
  \/ \E i \in Invocations : TokenBalanceReturns(i)
  \/ \E i \in Invocations : MintPriceReturns(i)
  \/ \E i \in Invocations : GateCallFails(i)

(***************************************************************************)
(* Part 5.  decodeTokenData on its own, on URIs built by the scheme.       *)
(***************************************************************************)

\* The longest image payload, in bytes.
MaxImageLen == 2

\* The bytes image payloads are made of: '<', '"', the two bytes of U+00E9
\* (195, 169) and 255, which no UTF-8 text contains.
ImageBytes == {60, 34, 195, 169, 255}

RECURSIVE SeqsUpTo(_, _)
SeqsUpTo(S, n) ==
  IF n = 0 THEN {<<>>}
  ELSE LET shorter == SeqsUpTo(S, n - 1)
       IN  shorter \cup {Append(q, x) : q \in {r \in shorter : Len(r) = n - 1}, x \in S}

Images == SeqsUpTo(ImageBytes, MaxImageLen)

NameKey == <<110, 97, 109, 101>>
DescriptionKey == <<100, 101, 115, 99>>

\* The metadata objects: empty, with one and two members, with a member
\* that needs JSON escapes, with a member outside ASCII, and with an image
\* member of its own.
Metadatas ==
  {<<>>,
   << <<NameKey, <<78, 49>>>> >>,
   << <<NameKey, <<78, 49>>>>, <<DescriptionKey, <<>>>> >>,
   << <<NameKey, <<34, 92, 47>>>> >>,
   << <<NameKey, <<233>>>>, <<DescriptionKey, <<100>>>> >>,
   << <<ImageKey, <<120>>>>, <<NameKey, <<78, 50>>>> >>}

\* Whether bytes are the UTF-8 encoding of a text below U+0800.
RECURSIVE IsUtf8(_)
IsUtf8(b) ==
  IF b = <<>> THEN TRUE
  ELSE IF b[1] < 128 THEN IsUtf8(Tail(b))
  ELSE /\ b[1] >= 194 /\ b[1] <= 223
       /\ Len(b) >= 2 /\ b[2] >= 128 /\ b[2] <= 191
       /\ IsUtf8(SubSeq(b, 3, Len(b)))

\* The token URI of (dM, dI) is built.
Encode ==
  /\ dpc = "input"
  /\ dURI' = EncodeTokenURI(dM, dI)
  /\ dpc' = "encoded"
  /\ UNCHANGED <<dM, dI, dOut, dOut2, fetchVars, gateVars>>

\* decodeTokenData(dURI) is called.
Decode ==
  /\ dpc = "encoded"
  /\ dOut' = decodeTokenData(dURI)
  /\ dpc' = "decoded"
  /\ UNCHANGED <<dM, dI, dURI, dOut2, fetchVars, gateVars>>

\* decodeTokenData(dURI) is called once more.
DecodeAgain ==
  /\ dpc = "decoded"
  /\ dOut2' = decodeTokenData(dURI)
  /\ dpc' = "decodedTwice"
  /\ UNCHANGED <<dM, dI, dURI, dOut, fetchVars, gateVars>>

\* The ways a URI departs from the scheme: another prefix of the same
\* length in front of the payload, no prefix, the empty string, a payload
\* that is not JSON, metadata left without the scheme's image member, an
\* image with another prefix of the same length, and an image whose data
\* holds a character outside the base64 alphabet.
Faults ==
  {"otherOuterPrefix", "noOuterPrefix", "empty", "notJSON", "noImage",
   "otherImagePrefix", "imageNotBase64"}

\* The prefix with its first letter in upper case ("Data:...").
OtherPrefix(prefix) == <<68>> \o Tail(prefix)

\* The token URI whose payload is the JSON text of M.
EncodeMetadata(M) == OuterPrefix \o Base64Encode(Utf8Encode(JSONStringify(M)))

\* The URI of (M, bytes) with the given departure from the scheme.
MalformedTokenURI(fault, M, bytes) ==
  CASE fault = "otherOuterPrefix" ->
         OtherPrefix(OuterPrefix) \o Substring(EncodeTokenURI(M, bytes), OuterPrefixLen)
    [] fault = "noOuterPrefix" -> Substring(EncodeTokenURI(M, bytes), OuterPrefixLen)
    [] fault = "empty" -> <<>>
    [] fault = "notJSON" -> OuterPrefix \o Base64Encode(NotJSONText)
    [] fault = "noImage" -> EncodeMetadata(M)
    [] fault = "otherImagePrefix" ->
         EncodeMetadata(ObjSet(M, ImageKey,
                               OtherPrefix(ImagePrefix) \o Base64Encode(bytes)))
    [] fault = "imageNotBase64" ->
         EncodeMetadata(ObjSet(M, ImageKey,
                               ImagePrefix \o <<42>> \o Base64Encode(bytes)))

\* A URI that departs from the scheme is built from (dM, dI).
Malform(fault) ==
  /\ dpc = "input"
  /\ dURI' = MalformedTokenURI(fault, dM, dI)
  /\ dpc' = "encoded"
  /\ UNCHANGED <<dM, dI, dOut, dOut2, fetchVars, gateVars>>

DecodeInit ==
  /\ dpc = "input"
  /\ dM \in Metadatas
  /\ dI \in Images
  /\ dURI = <<>>
  /\ dOut = Undefined
  /\ dOut2 = Undefined

DecodeNext == Encode \/ Decode \/ DecodeAgain

DecodeIdle ==
  /\ dpc = "idle" /\ dM = <<>> /\ dI = <<>> /\ dURI = <<>>
  /\ dOut = Undefined /\ dOut2 = Undefined

FetchInit ==
  /\ chainSupply \in 0 .. MaxSupply
  /\ chainLimit \in LimitChoices
  /\ badToken \in -1 .. MaxSupply - 1
  /\ \E c \in Configs : assetProvider = c[1] /\ network = c[2]
  /\ totalSupply = 0
  /\ mintLimit = 0
  /\ nextImage = Null
  /\ tokens = <<>>
  /\ pc = [i \in Invocations |-> "idle"]
  /\ tokenId = [i \in Invocations |-> 0]
  /\ genArgs = [i \in Invocations |-> <<>>]
  /\ calls = [i \in Invocations |-> <<>>]
  /\ readSupply = [i \in Invocations |-> -1]
  /\ readLimit = [i \in Invocations |-> -1]
  /\ failure = [i \in Invocations |-> NoFailure]
  /\ supplyAtCall = [i \in Invocations |-> -1]
  /\ started = 0

Init == FetchInit /\ GateIdle /\ DecodeIdle

\* Fetches one after another on one fetcher, against a chain that mints.
Next ==
  \/ StartAlone
  \/ \E i \in Invocations : SupplyReturns(i)
  \/ \E i \in Invocations : LimitReturns(i)
  \/ \E i \in Invocations : GenerateReturns(i)
  \/ \E i \in Invocations : TokenURIReturns(i)
  \/ \E i \in Invocations : CallFails(i)
  \/ Mint

Spec == Init /\ [][Next]_vars

\* Whether invocation i waits for a remote call that can still settle.
Pending(i) == Running(i) /\ pc[i] # "stalled"
GPending(i) == GRunning(i) /\ gpc[i] # "stalled"

\* The remote call invocation i waits for rejects, when it can settle.
CallFailsPending(i) == Pending(i) /\ CallFails(i)
GateCallFailsPending(i) == GPending(i) /\ GateCallFails(i)

\* The remote call invocation i waits for is one that never settles: the
\* invocation stays suspended at its await (const.ts:180, :181, :187, :202),
\* for which the code has no timeout and no cancellation.
CallStalls(i) ==
  /\ Pending(i)
  /\ pc' = [pc EXCEPT ![i] = "stalled"]
  /\ UNCHANGED <<chainVars, configVars, refVars, tokenId, genArgs, calls,
                 readSupply, readLimit, failure, supplyAtCall, started,
                 gateVars, decodeVars>>

\* The same for checkTokenGate (const.ts:232, :136, :143).
GateCallStalls(i) ==
  /\ GPending(i)
  /\ gpc' = [gpc EXCEPT ![i] = "stalled"]
  /\ UNCHANGED <<gateChain, gateRefs, account, gcalls, gstarted,
                 fetchVars, decodeVars>>

\* The remote call invocation i of fetchTokens waits for settles: it
\* returns or it rejects.
Settles(i) ==
  \/ SupplyReturns(i)
  \/ LimitReturns(i)
  \/ GenerateReturns(i)
  \/ TokenURIReturns(i)
  \/ CallFailsPending(i)

\* The remote call invocation i of checkTokenGate waits for settles.
GateSettles(i) ==
  \/ GateBalanceReturns(i)
  \/ TokenBalanceReturns(i)
  \/ MintPriceReturns(i)
  \/ GateCallFailsPending(i)

\* The single invocation of fetchTokens, and of checkTokenGate, whose
\* termination is followed.
StartOnce == started = 0 /\ StartAlone
CheckOnce(acct) == gstarted = 0 /\ CheckAlone(acct)

\* A page with one fetcher and one checker, each called once, whose remote
\* calls return, reject or never settle.
SettleNext ==
  \/ StartOnce
  \/ \E i \in Invocations : Settles(i)
  \/ \E i \in Invocations : CallStalls(i)
  \/ \E acct \in Accounts : CheckOnce(acct)
  \/ \E i \in Invocations : GateSettles(i)
  \/ \E i \in Invocations : GateCallStalls(i)
  \/ Mint

\* A call that can settle does settle, and the continuation of the await
\* then runs: the event loop runs every continuation whose promise has
\* settled.
SettleFairness ==
  \A i \in Invocations : WF_vars(Settles(i)) /\ WF_vars(GateSettles(i))

\* Two fetches one after the other on one fetcher, against a chain that
\* mints.
SeqNext ==
  \/ \E i \in Invocations : StartInTurn(i)
  \/ \E i \in Invocations : SupplyReturns(i)
  \/ \E i \in Invocations : LimitReturns(i)
  \/ \E i \in Invocations : GenerateReturns(i)
  \/ \E i \in Invocations : TokenURIReturns(i)
  \/ \E i \in Invocations : CallFails(i)
  \/ Mint

SeqSpec == Init /\ [][SeqNext]_vars

\* Fetches that may overlap on one fetcher.
ConcNext ==
  \/ \E i \in Invocations : Start(i)
  \/ \E i \in Invocations : SupplyReturns(i)
  \/ \E i \in Invocations : LimitReturns(i)
  \/ \E i \in Invocations : GenerateReturns(i)
  \/ \E i \in Invocations : TokenURIReturns(i)
  \/ \E i \in Invocations : CallFails(i)
  \/ Mint

\* Two fetches that may overlap, each invocation started once.
StartFresh(i) == pc[i] = "idle" /\ Start(i)

OverlapNext ==
  \/ \E i \in Invocations : StartFresh(i)
  \/ \E i \in Invocations : SupplyReturns(i)
  \/ \E i \in Invocations : LimitReturns(i)
  \/ \E i \in Invocations : GenerateReturns(i)
  \/ \E i \in Invocations : TokenURIReturns(i)
  \/ \E i \in Invocations : CallFails(i)
  \/ Mint

\* Overlapping fetches are tried with the default provider and with the
\* chain's token 1 well-formed or malformed.
ConcInit ==
  /\ Init
  /\ assetProvider = ""
  /\ network = "localhost"
  /\ badToken \in {-1, 1}

ConcSpec == ConcInit /\ [][ConcNext]_vars

OverlapSpec == ConcInit /\ [][OverlapNext]_vars

GateOnlyInit == FetchIdle /\ GateInit /\ DecodeIdle

GateSpec == GateOnlyInit /\ [][GateNext]_vars

DecodeOnlyInit == FetchIdle /\ GateIdle /\ DecodeInit

DecodeSpec == DecodeOnlyInit /\ [][DecodeNext]_vars

\* The decoder on URIs of the scheme and on URIs that depart from it.
MalformedNext ==
  \/ Encode
  \/ \E fault \in Faults : Malform(fault)
  \/ Decode

MalformedSpec == DecodeOnlyInit /\ [][MalformedNext]_vars

\* A page with one fetcher and one checker: fetches one after another and
\* checks one after another, a fetch and a check side by side.
AppInit ==
  /\ FetchInit
  /\ GateInit
  /\ DecodeIdle
  /\ assetProvider = ""
  /\ network = "localhost"
  /\ badToken \in {-1, 1}
  /\ gateBalances = [a \in Accounts |-> MaxBalance]
  /\ tokenBalances = [a \in Accounts |-> MaxBalance]
  /\ mintPrices = [a \in Accounts |-> MaxBalance]

AppNext == Next \/ GateNext

AppSpec == AppInit /\ [][AppNext]_vars

SettleSpec == AppInit /\ [][SettleNext]_vars /\ SettleFairness

GateConcSpec == GateOnlyInit /\ [][GateConcNext]_vars

(***************************************************************************)
(* Part 6.  Properties.                                                    *)
(***************************************************************************)

IsGenerate(c) == c.method = "generateSVGPart"
IsDebugTokenURI(c) == c.method = "debugTokenURI"

\* The generateSVGPart calls invocation i has issued.
GenerateCalls(i) == SelectSeq(calls[i], IsGenerate)
\* The debugTokenURI calls invocation i has issued.
DebugCalls(i) == SelectSeq(calls[i], IsDebugTokenURI)

\* Whether invocation i got past the provider-address lookup of const.ts:183.
PastLookup(i) ==
  /\ readLimit[i] >= 0
  /\ ~(pc[i] = "failed" /\ failure[i].method = "addresses")

\* The tokenIds of a list of tokens.
TokenIdsOf(ts) == [k \in 1 .. Len(ts) |-> ts[k].tokenId]

\* The ids [max(0, S - 4), S) in ascending order.
WindowIds(S) == [k \in 1 .. Min(RecentWindow, S) |-> Max(0, S - RecentWindow) + k - 1]

\* C1: in a fetchTokens invocation that overlaps no other, generateSVGPart
\* is called only when the totalSupply read is below the mintLimit read;
\* once the provider address has been looked up it has been called exactly
\* once in that case, with that address and the totalSupply read as index,
\* and never otherwise; on completion nextImage is present exactly in that
\* case.
C1_GenerateIffBelowLimit ==
  \A i \in Invocations :
    /\ ~PastLookup(i) => GenerateCalls(i) = <<>>
    /\ PastLookup(i) =>
         IF readSupply[i] < readLimit[i]
         THEN GenerateCalls(i) =
                <<Call("generateSVGPart",
                       <<ProviderAddress(assetProvider, network), readSupply[i]>>)>>
         ELSE GenerateCalls(i) = <<>>
    /\ pc[i] = "done" => (nextImage # Null <=> readSupply[i] < readLimit[i])

\* C1 witness: the fetch of a chain with 2 tokens of more than 5 is done,
\* having asked once for image 2, and has tokens 0 and 1.
C1_Witness ==
  /\ pc[FirstInvocation] = "done"
  /\ readSupply[FirstInvocation] = 2
  /\ readLimit[FirstInvocation] > MaxSupply
  /\ Len(GenerateCalls(FirstInvocation)) = 1
  /\ GenerateCalls(FirstInvocation)[1].args[2] = 2
  /\ nextImage # Null
  /\ TokenIdsOf(tokens) = <<0, 1>>

\* C2: when a fetchTokens invocation that overlaps no other completes, having
\* read totalSupply S, tokens holds min(4, S) tokens whose ids are
\* max(0, S - 4), ..., S - 1 in this order, whether or not an image was
\* generated.
C2_RecentTokensWindow ==
  \A i \in Invocations :
    pc[i] = "done" =>
      /\ Len(tokens) = Min(RecentWindow, readSupply[i])
      /\ TokenIdsOf(tokens) = WindowIds(readSupply[i])
      /\ \A k \in 1 .. Len(tokens) - 1 : tokens[k].tokenId + 1 = tokens[k + 1].tokenId
      /\ readSupply[i] > 0 => tokens[Len(tokens)].tokenId = readSupply[i] - 1

\* C2 witness: a fetch without generation is done on a chain of 5 tokens,
\* with tokens 1 to 4.
C2_Witness ==
  /\ pc[FirstInvocation] = "done"
  /\ readSupply[FirstInvocation] = RecentWindow + 1
  /\ GenerateCalls(FirstInvocation) = <<>>
  /\ TokenIdsOf(tokens) = <<1, 2, 3, 4>>

\* C3 (as claimed): when the debugTokenURI call or the decoding of a token
\* fails, the fetch fails and the caller sees none of the tokens fetched
\* earlier in the invocation.
C3_AllOrNothing ==
  \A i \in Invocations :
    (pc[i] = "failed" /\ failure[i].tokenId >= 0) => tokens = <<>>

\* Whether the address table has no address for (name, net), the name taken
\* as given.
NoEntry(name, net) ==
  \/ name \notin DOMAIN addresses
  \/ net \notin DOMAIN addresses[name]

IsGateCall(c) == c.method = "gate.balanceOf"

\* The calls of a checkTokenGate(acct) invocation that runs to its end.
ExpectedGateCalls(acct) ==
  (IF tokenGated THEN <<Call("gate.balanceOf", acct)>> ELSE <<>>)
    \o <<Call("token.balanceOf", acct), Call("token.mintPriceFor", acct)>>

IsPrefix(p, q) == Len(p) <= Len(q) /\ p = SubSeq(q, 1, Len(p))

\* C5: in checkTokenGate invocations that overlap no other, the gate
\* contract's balanceOf is called when and only when tokenGated: not gated,
\* no invocation ever calls it and totalBalance stays 0; gated, every
\* invocation calls it once, first, and when the invocation completes
\* totalBalance is what the gate contract returned for its account.
C5_GateQueriedIffGated ==
  \A i \in Invocations :
    /\ ~tokenGated => (SelectSeq(gcalls[i], IsGateCall) = <<>> /\ totalBalance = 0)
    /\ (tokenGated /\ gcalls[i] # <<>>) =>
         /\ SelectSeq(gcalls[i], IsGateCall) = <<Call("gate.balanceOf", account[i])>>
         /\ gcalls[i][1] = Call("gate.balanceOf", account[i])
    /\ (tokenGated /\ gpc[i] = "done") => totalBalance = gateBalances[account[i]]

\* C5 witness: a gated check is done for an account whose gate balance is 1,
\* and totalBalance is 1.
C5_Witness ==
  /\ tokenGated
  /\ gpc[FirstInvocation] = "done"
  /\ gateBalances[account[FirstInvocation]] = 1
  /\ totalBalance = 1

\* C6: a checkTokenGate(account) invocation that overlaps no other issues
\* its calls in the order gate balanceOf (when gated), token balanceOf,
\* token mintPriceFor, all for its account, each after the one before
\* returned; it completes only with all of them issued and returned, gated
\* or not, and then balanceOf and mintPrice are what the token contract
\* returned for the account.  An invocation ends earlier only by a call of
\* its own that rejects.
C6_TokenQueriesAlways ==
  \A i \in Invocations :
    /\ IsPrefix(gcalls[i], ExpectedGateCalls(account[i]))
    /\ GRunning(i) =>
         gcalls[i][Len(gcalls[i])].method =
           (IF gpc[i] = "gate.balanceOf" THEN gpc[i] ELSE "token." \o gpc[i])
    /\ gpc[i] = "done" =>
         /\ gcalls[i] = ExpectedGateCalls(account[i])
         /\ balanceOf = tokenBalances[account[i]]
         /\ mintPrice = mintPrices[account[i]]
    /\ gpc[i] = "failed" => gcalls[i] # <<>>

\* C6 witness: an ungated check for account B is done, where B's balance and
\* price differ from A's.
C6_Witness ==
  /\ ~tokenGated
  /\ gpc[FirstInvocation] = "done"
  /\ account[FirstInvocation] = "B"
  /\ tokenBalances["B"] # tokenBalances["A"]
  /\ mintPrices["B"] # mintPrices["A"]
  /\ mintPrices["B"] # tokenBalances["B"]
  /\ Len(gcalls[FirstInvocation]) = 2

\* C7 (as claimed): when all the fetches started on a fetcher have
\* completed, overlapping or not, the collection state is that of one fetch
\* run alone: tokens are the window of totalSupply, without duplicates, and
\* nextImage is present exactly when totalSupply is below mintLimit.
C7_ReEntrant ==
  (/\ \A i \in Invocations : pc[i] \in {"idle", "done"}
   /\ \E i \in Invocations : pc[i] = "done")
  => /\ TokenIdsOf(tokens) = WindowIds(totalSupply)
     /\ nextImage # Null <=> totalSupply < mintLimit

\* C8 (as claimed): when two checks for different accounts have both
\* completed, overlapping or not, the three refs hold values read for one
\* and the same account.
C8_GateStateOfOneAccount ==
  (/\ \A i \in Invocations : gpc[i] = "done"
   /\ \A i, j \in Invocations : i # j => account[i] # account[j])
  => \E a \in Accounts :
       /\ tokenGated => totalBalance = gateBalances[a]
       /\ balanceOf = tokenBalances[a]
       /\ mintPrice = mintPrices[a]

\* C9 (as claimed): in every state of the refs, nextImage is present only if
\* totalSupply is below mintLimit.
C9_NextImageOnlyBelowLimit ==
  nextImage # Null => totalSupply < mintLimit

\* C10 (as claimed): decoding the URI built from metadata M and image bytes
\* I gives M (with its image member) and exactly the bytes I.
C10_RoundTripAnyBytes ==
  dpc \in {"decoded", "decodedTwice"} =>
    /\ dOut.t = "ok"
    /\ dOut.json = ObjSet(dM, ImageKey, EncodeImage(dI))
    /\ Utf8Encode(dOut.svg) = dI

\* C10 (amended): decoding the URI built from metadata M and image payload I
\* gives M with its image member set to the image's data URI, and the text
\* whose UTF-8 encoding is I when I is UTF-8 text; bytes of I that are not
\* UTF-8 come back as U+FFFD.  Decoding the same URI again gives the same
\* result.
C10_RoundTripText ==
  dpc \in {"decoded", "decodedTwice"} =>
    /\ dOut.t = "ok"
    /\ dOut.json = ObjSet(dM, ImageKey, EncodeImage(dI))
    /\ IsUtf8(dI) => Utf8Encode(dOut.svg) = dI
    /\ ~IsUtf8(dI) => \E k \in 1 .. Len(dOut.svg) : dOut.svg[k] = ReplacementChar
    /\ dpc = "decodedTwice" => dOut2 = dOut

\* C10 witness: the URI of metadata with a member outside ASCII and of the
\* two-byte image U+00E9 has been decoded to that character.
C10_Witness ==
  /\ dpc = "decoded"
  /\ Len(dM) = 2
  /\ dI = <<195, 169>>
  /\ dOut.t = "ok"
  /\ dOut.svg = <<233>>


\* Whether s is base64 as the scheme writes it: characters of the standard
\* alphabet, in groups of four, the last group padded with one or two '='.
IsStrictBase64(s) ==
  LET n == Len(s)
      pads == IF n >= 2 /\ s[n - 1] = 61 /\ s[n] = 61 THEN 2
              ELSE IF n >= 1 /\ s[n] = 61 THEN 1 ELSE 0
  IN  /\ n % 4 = 0
      /\ \A k \in 1 .. n - pads :
            \/ s[k] \in 65 .. 90 \/ s[k] \in 97 .. 122 \/ s[k] \in 48 .. 57
            \/ s[k] = 43 \/ s[k] = 47

\* C11: decodeTokenData rejects with an error every input that does not
\* begin with the exact outer prefix, and every payload whose image member
\* is absent, does not begin with the exact image prefix, or is not valid
\* base64 after it: a result is returned only for a URI with both prefixes
\* and a base64 image.
C11_RejectsMalformed ==
  dpc = "decoded" =>
    /\ ~IsPrefix(OuterPrefix, dURI) => dOut.t = "throw"
    /\ dOut.t = "ok" =>
         LET image == ObjGet(dOut.json, ImageKey)
         IN  /\ image # Undefined
             /\ IsPrefix(ImagePrefix, image.s)
             /\ IsStrictBase64(Substring(image.s, ImagePrefixLen))


\* No two calls of the log have the same method and the same arguments.
NoDuplicates(q) ==
  \A a, b \in 1 .. Len(q) :
    (q[a].method = q[b].method /\ q[a].args = q[b].args) => a = b

\* Whether invocation i of fetchTokens ended because a remote call rejected.
CallFailed(i) == pc[i] = "failed" /\ failure[i].kind = "ContractCallFailed"

\* C12: no retry and no silent recovery.  No invocation of fetchTokens or
\* checkTokenGate issues the same remote call (method and arguments) twice.
\* When a remote call rejects, the invocation fails in that very step: the
\* failure names the call issued last, the step issues no call and writes
\* no ref, and the failed invocation issues no call and writes no ref
\* afterwards.
C12_NoRetryNoRecovery ==
  /\ [](\A i \in Invocations :
         /\ NoDuplicates(calls[i])
         /\ NoDuplicates(gcalls[i])
         /\ CallFailed(i) =>
              /\ calls[i][Len(calls[i])].method = failure[i].method
              /\ failure[i].method = "debugTokenURI" =>
                   calls[i][Len(calls[i])].args = failure[i].tokenId)
  /\ [][\A i \in Invocations :
         /\ (Running(i) /\ pc'[i] = "failed" /\ failure'[i].kind = "ContractCallFailed")
              => calls'[i] = calls[i] /\ refVars' = refVars
         /\ (pc[i] = "failed" /\ pc'[i] = "failed")
              => calls'[i] = calls[i] /\ refVars' = refVars
         /\ (GRunning(i) /\ gpc'[i] = "failed")
              => gcalls'[i] = gcalls[i] /\ gateRefs' = gateRefs
         /\ (gpc[i] = "failed" /\ gpc'[i] = "failed")
              => gcalls'[i] = gcalls[i] /\ gateRefs' = gateRefs]_vars

\* A fetch whose debugTokenURI call rejected after a token had been pushed,
\* and a check whose mintPriceFor call rejected.
C12_Witness ==
  /\ CallFailed(FirstInvocation)
  /\ failure[FirstInvocation].method = "debugTokenURI"
  /\ Len(tokens) >= 1
  /\ gpc[FirstInvocation] = "failed"
  /\ Len(gcalls[FirstInvocation]) = 3


\* C13: within one fetchTokens invocation, overlapping others or not, the
\* steps run in dependency order.  generateSVGPart is called only in the
\* step in which the invocation's mintLimit read returns, its totalSupply
\* read having returned before; the first debugTokenURI call is issued only
\* in the step in which the invocation's generateSVGPart call returns, or,
\* when the invocation calls no generateSVGPart, in the step in which its
\* mintLimit read returns.  So no generateSVGPart call is pending once a
\* debugTokenURI call has been issued, and in the log the reads precede
\* the generation call, which precedes the debugTokenURI calls.
C13_DependencyOrder ==
  /\ [](\A i \in Invocations :
         /\ GenerateCalls(i) # <<>> => readSupply[i] >= 0 /\ readLimit[i] >= 0
         /\ DebugCalls(i) # <<>> =>
              /\ readSupply[i] >= 0 /\ readLimit[i] >= 0
              /\ pc[i] # "generateSVGPart"
         /\ \A a, b \in 1 .. Len(calls[i]) :
              (/\ a < b
               /\ calls[i][b].method \in {"totalSupply", "mintLimit", "generateSVGPart"})
              => calls[i][a].method \in {"totalSupply", "mintLimit"})
  /\ [][\A i \in Invocations :
         /\ Len(GenerateCalls(i)') > Len(GenerateCalls(i)) =>
              /\ pc[i] = "mintLimit"
              /\ readSupply[i] >= 0
              /\ readLimit'[i] >= 0
         /\ (DebugCalls(i) = <<>> /\ DebugCalls(i)' # <<>>) =>
              \/ pc[i] = "generateSVGPart"
              \/ pc[i] = "mintLimit" /\ readLimit'[i] >= 0 /\ GenerateCalls(i)' = <<>>]_vars

\* Two overlapping invocations, one that finished after a generation call
\* and debugTokenURI calls, one that has issued a debugTokenURI call.
C13_Witness ==
  \E i, j \in Invocations :
    /\ i # j
    /\ pc[i] = "done"
    /\ Len(GenerateCalls(i)) = 1
    /\ Len(DebugCalls(i)) >= 2
    /\ pc[j] = "debugTokenURI"


\* The tokenIds of the debugTokenURI calls invocation i has issued, in order.
DebugIds(i) == [k \in 1 .. Len(DebugCalls(i)) |-> DebugCalls(i)[k].args]

\* Whether invocation i failed in its loop, at the call or the decoding of
\* a token.
FailedAtToken(i) == pc[i] = "failed" /\ failure[i].tokenId >= 0

\* C14: the recent tokens are fetched one at a time in ascending tokenId
\* order, with early abort.  In every invocation, overlapping others or
\* not, the debugTokenURI calls are for consecutive ascending ids; the call
\* for k+1 is issued only in the step in which the call for k returns and
\* token k, decoded, is pushed; and an invocation that failed at the call
\* or the decoding of token k has issued no call for an id above k, and
\* issues none afterwards.
C14_SequentialEarlyAbort ==
  /\ [](\A i \in Invocations :
         /\ \A k \in 1 .. Len(DebugIds(i)) - 1 : DebugIds(i)[k + 1] = DebugIds(i)[k] + 1
         /\ pc[i] = "debugTokenURI" =>
              DebugIds(i) # <<>> /\ DebugIds(i)[Len(DebugIds(i))] = tokenId[i]
         /\ FailedAtToken(i) =>
              /\ DebugIds(i) # <<>>
              /\ DebugIds(i)[Len(DebugIds(i))] = failure[i].tokenId)
  /\ [][\A i \in Invocations :
         /\ (DebugIds(i) # <<>> /\ Len(DebugIds(i)') > Len(DebugIds(i))) =>
              /\ pc[i] = "debugTokenURI"
              /\ Len(DebugIds(i)') = Len(DebugIds(i)) + 1
              /\ Len(tokens') = Len(tokens) + 1
              /\ tokens'[Len(tokens')].tokenId = DebugIds(i)[Len(DebugIds(i))]
              /\ DecodedTokens[DebugIds(i)[Len(DebugIds(i))]][badToken].t = "ok"
         /\ (FailedAtToken(i) /\ pc'[i] = "failed") => calls'[i] = calls[i]]_vars

\* An invocation that failed at the decoding of token 1, after token 0,
\* with tokens above 1 left in its window.
C14_Witness ==
  \E i \in Invocations :
    /\ FailedAtToken(i)
    /\ failure[i].method = "decodeTokenData"
    /\ DebugIds(i) = <<0, 1>>
    /\ readSupply[i] >= 3


\* C15 (as claimed): every invocation, overlapping others or not and with
\* the chain minting meanwhile, issues at most 4 debugTokenURI calls, all
\* for tokenIds in [max(0, S - 4), S), S being the totalSupply the
\* invocation itself read.
C15_WindowOfOwnRead ==
  \A i \in Invocations :
    /\ Len(DebugIds(i)) <= RecentWindow
    /\ \A k \in 1 .. Len(DebugIds(i)) :
         /\ DebugIds(i)[k] >= Max(0, readSupply[i] - RecentWindow)
         /\ DebugIds(i)[k] < readSupply[i]


\* The recent tokens of a chain whose supply is S, as fetchTokens keeps them.
TokensOfSupply(S) ==
  [k \in 1 .. Min(RecentWindow, S) |->
    [tokenId |-> WindowIds(S)[k],
     image |-> ObjGet(DecodedTokens[WindowIds(S)[k]][badToken].json, ImageKey).s]]

\* The next token's image for supply S and limit L.
NextImageOf(S, L) ==
  IF S < L THEN SvgImage(<<ProviderAddress(assetProvider, network), S>>) ELSE Null

\* Whether invocation i has completed and no fetch was started after it.
LatestCompleted(i) ==
  /\ pc[i] = "done"
  /\ i = SecondInvocation \/ pc[SecondInvocation] = "idle"

\* C16: no caching across fetches that do not overlap, on a chain that
\* mints.  Every invocation issues its own totalSupply() and mintLimit()
\* reads, first and second, and completes only with both returned; what
\* they returned is the chain's limit and a supply the chain has had; and
\* when an invocation has completed, the refs hold what follows from the
\* two values it read and nothing of an earlier fetch: totalSupply and
\* mintLimit as read, nextImage for them, tokens the window of that supply.
C16_NoCaching ==
  \A i \in Invocations :
    /\ pc[i] # "idle" => calls[i][1] = Call("totalSupply", <<>>)
    /\ readSupply[i] >= 0 =>
         /\ Len(calls[i]) >= 2
         /\ calls[i][2] = Call("mintLimit", <<>>)
         /\ readSupply[i] <= chainSupply
    /\ readLimit[i] >= 0 => readLimit[i] = chainLimit
    /\ pc[i] = "done" => readSupply[i] >= 0 /\ readLimit[i] >= 0
    /\ LatestCompleted(i) =>
         /\ totalSupply = readSupply[i]
         /\ mintLimit = readLimit[i]
         /\ nextImage = NextImageOf(readSupply[i], readLimit[i])
         /\ tokens = TokensOfSupply(readSupply[i])

\* A first fetch completed below the limit, with tokens and a next image,
\* and a second fetch completed after mints, at the limit.
C16_Witness ==
  /\ pc[FirstInvocation] = "done"
  /\ pc[SecondInvocation] = "done"
  /\ readSupply[FirstInvocation] >= 1
  /\ readSupply[FirstInvocation] < readLimit[FirstInvocation]
  /\ readSupply[SecondInvocation] > readSupply[FirstInvocation]
  /\ readSupply[SecondInvocation] >= readLimit[SecondInvocation]


IsRead(c) == c.method \in {"totalSupply", "mintLimit"}
\* The totalSupply and mintLimit calls invocation i has issued.
ReadCalls(i) == SelectSeq(calls[i], IsRead)

Finished(i) == pc[i] \in {"done", "failed"}
GFinished(i) == gpc[i] \in {"done", "failed"}

\* C17: termination.  A fetchTokens invocation that runs alone issues at
\* most 2 reads, 1 generateSVGPart call and 4 debugTokenURI calls, and a
\* checkTokenGate invocation at most 3 calls.  Every invocation finishes,
\* completed or failed, unless one of its calls is one that never settles;
\* then it stays suspended for ever, issuing no call and writing no ref.
\* Invocations of the other composable are not held up by it: they still
\* finish, and new ones can still be started.
C17_Termination ==
  /\ [](\A i \in Invocations :
         /\ Len(ReadCalls(i)) <= 2
         /\ Len(GenerateCalls(i)) <= 1
         /\ Len(DebugCalls(i)) <= 4
         /\ Len(calls[i]) <= 7
         /\ Len(gcalls[i]) <= 3)
  /\ \A i \in Invocations : Pending(i) ~> (Finished(i) \/ pc[i] = "stalled")
  /\ \A i \in Invocations : GPending(i) ~> (GFinished(i) \/ gpc[i] = "stalled")
  /\ [][\A i \in Invocations :
         /\ pc[i] = "stalled" =>
              pc'[i] = "stalled" /\ calls'[i] = calls[i] /\ refVars' = refVars
         /\ gpc[i] = "stalled" =>
              gpc'[i] = "stalled" /\ gcalls'[i] = gcalls[i] /\ gateRefs' = gateRefs]_vars
  /\ [](\A i \in Invocations :
         /\ (pc[i] = "stalled" /\ gstarted = 0) => ENABLED CheckOnce("A")
         /\ (gpc[i] = "stalled" /\ started = 0) => ENABLED StartOnce)

\* A fetch that issued all its seven calls and completed while a check is
\* stalled, and was started after the check had stalled at its second call.
C17_Witness ==
  /\ pc[FirstInvocation] = "done"
  /\ Len(calls[FirstInvocation]) = 7
  /\ gpc[FirstInvocation] = "stalled"
  /\ Len(gcalls[FirstInvocation]) = 2

====